---- MODULE Spec2Model ----
(***************************************************************************)
(* Model of the company-data clients of test-rne: the LegalMap client      *)
(* (identifier validation, paginated document search, bundle assembly),    *)
(* the Pappers client and the comparison dashboard's fetch stage.          *)
(*                                                                         *)
(* Text is a sequence of one-character strings.  A JSON value is a tagged  *)
(* record: [k |-> "null"], [k |-> "str", v |-> text], [k |-> "num",        *)
(* v |-> n], [k |-> "dict", v |-> function on keys], [k |-> "list",        *)
(* v |-> sequence].  A raised Python exception is [k |-> "raise", ...].    *)
(***************************************************************************)
EXTENDS Integers, Sequences, FiniteSets, TLC

(***************************************************************************)
(* Bounds of the explored universe.                                        *)
(***************************************************************************)
MaxExtra == 1     \* identifier inputs are up to SirenLen + MaxExtra characters long
MaxOdd == 2       \* at most this many characters of an input are not ASCII digits
MaxPageSize == 2  \* small page sizes explored besides the default
MaxPages == 4     \* page requests explored per search_all_documents call
MaxDocs == 2      \* documents per page in the bundle universes
MaxWidth == 2     \* members of the inner lists of the trees flattened
MaxCalls == 2     \* direct calls of summarize_company explored in a row

(***************************************************************************)
(* Program constants.                                                      *)
(***************************************************************************)
SirenLen == 9
DefaultPageSize == 100
DefaultMaxResults == 1000
DefaultDays == 365
DefaultTop == 3
PreviewLen == 2000

(***************************************************************************)
(* Text.                                                                   *)
(***************************************************************************)
AsciiDigits == {"0", "1", "2", "3", "4", "5", "6", "7", "8", "9"}
\* "u0665" stands for the one character U+0665 (ARABIC-INDIC DIGIT FIVE),
\* for which str.isdigit() is true.
UnicodeDigits == {"u0665"}
Whitespace == {" ", "\t"}

Min(a, b) == IF a < b THEN a ELSE b
Max(a, b) == IF a < b THEN b ELSE a

\* str.isdigit() of one character
CharIsDigit(c) == c \in AsciiDigits \cup UnicodeDigits

\* str.isdigit(): non-empty and every character a digit
IsDigit(s) == Len(s) > 0 /\ \A i \in 1..Len(s) : CharIsDigit(s[i])

RECURSIVE LStrip(_)
LStrip(s) == IF Len(s) > 0 /\ Head(s) \in Whitespace THEN LStrip(Tail(s)) ELSE s

RECURSIVE RStrip(_)
RStrip(s) ==
    IF Len(s) > 0 /\ s[Len(s)] \in Whitespace
    THEN RStrip(SubSeq(s, 1, Len(s) - 1))
    ELSE s

\* str.strip()
Strip(s) == RStrip(LStrip(s))

\* str.replace(" ", "")
RECURSIVE RemoveSpaces(_)
RemoveSpaces(s) ==
    IF Len(s) = 0 THEN <<>>
    ELSE IF Head(s) = " " THEN RemoveSpaces(Tail(s))
    ELSE <<Head(s)>> \o RemoveSpaces(Tail(s))

RECURSIVE Zeros(_)
Zeros(n) == IF n <= 0 THEN <<>> ELSE <<"0">> \o Zeros(n - 1)

\* str.zfill(width): zeros go after a leading sign
Zfill(s, width) ==
    IF Len(s) >= width THEN s
    ELSE IF Len(s) > 0 /\ Head(s) \in {"+", "-"}
    THEN <<Head(s)>> \o Zeros(width - Len(s)) \o Tail(s)
    ELSE Zeros(width - Len(s)) \o s

DigitChar(d) ==
    CASE d = 0 -> "0" [] d = 1 -> "1" [] d = 2 -> "2" [] d = 3 -> "3"
      [] d = 4 -> "4" [] d = 5 -> "5" [] d = 6 -> "6" [] d = 7 -> "7"
      [] d = 8 -> "8" [] OTHER -> "9"

RECURSIVE Decimal(_)
Decimal(n) ==
    IF n < 10 THEN <<DigitChar(n)>> ELSE Decimal(n \div 10) \o <<DigitChar(n % 10)>>

\* str(int)
IntText(n) == IF n < 0 THEN <<"-">> \o Decimal(0 - n) ELSE Decimal(n)

(***************************************************************************)
(* JSON values and the Python operations the clients apply to them.        *)
(***************************************************************************)
Null == [k |-> "null"]
Str(s) == [k |-> "str", v |-> s]
Num(n) == [k |-> "num", v |-> n]
Dict(f) == [k |-> "dict", v |-> f]
List(l) == [k |-> "list", v |-> l]
EmptyDict == Dict(<<>>)
EmptyList == List(<<>>)
Raise(type) == [k |-> "raise", type |-> type]
IsRaise(x) == x.k = "raise"
IsDict(x) == x.k = "dict"

\* Python truthiness
Truthy(x) ==
    CASE x.k = "null" -> FALSE
      [] x.k = "str" -> Len(x.v) > 0
      [] x.k = "num" -> x.v # 0
      [] x.k = "dict" -> DOMAIN x.v # {}
      [] x.k = "list" -> Len(x.v) > 0
      [] OTHER -> TRUE

\* x or y
Or(x, y) == IF IsRaise(x) THEN x ELSE IF Truthy(x) THEN x ELSE y

\* obj.get(key, default); an exception on the way in is passed on, and a
\* receiver that is not a dict has no .get (AttributeError)
Get(obj, key, default) ==
    IF IsRaise(obj) THEN obj
    ELSE IF ~IsDict(obj) THEN Raise("AttributeError")
    ELSE IF key \in DOMAIN obj.v THEN obj.v[key]
    ELSE default

\* key in obj, for a dict
Has(obj, key) == IsDict(obj) /\ key \in DOMAIN obj.v

\* obj[key] = value, for a dict
Put(obj, key, value) ==
    Dict([x \in DOMAIN obj.v \cup {key} |-> IF x = key THEN value ELSE obj.v[x]])

\* str(x); containers render as one opaque token each
PyStr(x) ==
    CASE x.k = "str" -> x.v
      [] x.k = "num" -> IntText(x.v)
      [] x.k = "null" -> <<"N", "o", "n", "e">>
      [] x.k = "dict" -> <<"{}">>
      [] OTHER -> <<"[]">>

(***************************************************************************)
(* _validate_siren (the two clients define it identically) and the         *)
(* dashboard's is_valid_siren.                                             *)
(***************************************************************************)
ValidateSiren(siren) ==
    LET s == Strip(siren)
    IN  IF ~(Len(s) = SirenLen /\ IsDigit(s)) THEN Raise("ValueError") ELSE Str(s)

is_valid_siren(value) ==
    LET s == RemoveSpaces(Strip(value))
    IN  Len(s) = SirenLen /\ IsDigit(s)

(***************************************************************************)
(* HTTP responses and the two clients' _request.                           *)
(***************************************************************************)
JsonType == <<"application", "/", "json">>
PdfType == <<"application", "/", "pdf">>
HtmlType == <<"text", "/", "html">>

\* a response whose body decodes as JSON
JsonResp(status, data) ==
    [kind |-> "http", status |-> status, isjson |-> TRUE, data |-> data,
     ctype |-> JsonType, text |-> <<>>, nbytes |-> 0]

\* a response whose body does not decode as JSON
RawResp(status, ctype, text, nbytes) ==
    [kind |-> "http", status |-> status, isjson |-> FALSE, data |-> Null,
     ctype |-> ctype, text |-> text, nbytes |-> nbytes]

\* the transport gave up (timeout, connection error): session.get raises
ConnFail == [kind |-> "conn"]

ErrBody == Dict([message |-> Str(<<"x">>)])

HTTPError(status, body) == [k |-> "raise", type |-> "HTTPError", status |-> status, body |-> body]

\* "word" in content_type
InType(word, ctype) == \E i \in 1..Len(ctype) : ctype[i] = word

\* requests.Response.raise_for_status()
RaisesForStatus(status) == status >= 400 /\ status < 600

\* requests.Response.ok
Ok(status) == ~RaisesForStatus(status)

\* LegalMapRequest taking every response that does not decode for a failure
LegalMapRequestJsonOnly(resp) ==
    IF resp.kind = "conn" THEN Raise("ConnectionError")
    ELSE IF ~resp.isjson THEN HTTPError(resp.status, Null)
    ELSE IF resp.status >= 400 THEN HTTPError(resp.status, resp.data)
    ELSE resp.data

\* LegalMapClient._request, from the response on
LegalMapRequest(resp) ==
    IF resp.kind = "conn" THEN Raise("ConnectionError")
    ELSE IF ~resp.isjson
    THEN IF Ok(resp.status)
         THEN LET base == [_status_code |-> Num(resp.status), _content_type |-> Str(resp.ctype)]
              IN  IF InType("pdf", resp.ctype) \/ InType("octet-stream", resp.ctype)
                  THEN Dict([_status_code |-> base._status_code,
                             _content_type |-> base._content_type,
                             _note |-> Str(<<"binary">>),
                             _bytes_length |-> Num(resp.nbytes)])
                  ELSE Dict([_status_code |-> base._status_code,
                             _content_type |-> base._content_type,
                             _text_preview |->
                                 Str(SubSeq(resp.text, 1, Min(Len(resp.text), PreviewLen)))])
         ELSE IF RaisesForStatus(resp.status) THEN HTTPError(resp.status, Null)
         ELSE Dict([_status_code |-> Num(resp.status)])
    ELSE IF resp.status >= 400 THEN HTTPError(resp.status, resp.data)
    ELSE resp.data

\* PappersClient._request, from the response on
PappersRequest(resp) ==
    IF resp.kind = "conn" THEN Raise("ConnectionError")
    ELSE IF ~resp.isjson
    THEN IF RaisesForStatus(resp.status) THEN HTTPError(resp.status, Null) ELSE EmptyDict
    ELSE IF resp.status >= 400 THEN HTTPError(resp.status, resp.data)
    ELSE resp.data

\* str(exc) of a raised exception, one token
ExcText(exc) == <<exc.type>>

\* {"error": str(exc)}
ErrorMarker(exc) == Dict([error |-> Str(ExcText(exc))])

(***************************************************************************)
(* search_all_documents: the pieces of one loop iteration and the final    *)
(* merge.                                                                  *)
(***************************************************************************)
\* ((page.get("legalmap", {}) or {}).get("search_results", []) or [])
PageResults(page) ==
    Or(Get(Or(Get(page, "legalmap", EmptyDict), EmptyDict), "search_results", EmptyList),
       EmptyList)

\* len(x) of a truthy page_results
PyLen(x) == IF x.k \in {"list", "str"} THEN Len(x.v) ELSE Cardinality(DOMAIN x.v)

\* all_results.extend(page_results): a list gives its items, a string its
\* characters, a number is not iterable (the response universes hold no
\* dict-valued search_results)
Extend(all, x) ==
    CASE x.k = "list" -> List(all \o x.v)
      [] x.k = "str" -> List(all \o [i \in 1..Len(x.v) |-> Str(<<x.v[i]>>)])
      [] OTHER -> Raise("TypeError")

\* SearchStep without the break on an under-full page
SearchStepNoShortBreak(agg, all, offset, limit, bound, page) ==
    LET agg1 == IF ~Truthy(agg) THEN page ELSE agg
        pr == PageResults(page)
        ext == Extend(all, pr)
        stay == [aggregated |-> agg1, all_results |-> all, sk |-> offset]
    IN  IF IsRaise(pr) THEN [at |-> "raise", exc |-> pr] @@ stay
        ELSE IF ~Truthy(pr) THEN [at |-> "exit", exc |-> Null] @@ stay
        ELSE IF IsRaise(ext) THEN [at |-> "raise", exc |-> ext] @@ stay
        ELSE [at |-> IF offset + limit < bound THEN "continue" ELSE "exit",
              exc |-> Null, aggregated |-> agg1,
              all_results |-> ext.v, sk |-> offset + limit]

\* SearchStep with the loop condition sk <= max_results
SearchStepOffByOne(agg, all, offset, limit, bound, page) ==
    LET agg1 == IF ~Truthy(agg) THEN page ELSE agg
        pr == PageResults(page)
        ext == Extend(all, pr)
        stay == [aggregated |-> agg1, all_results |-> all, sk |-> offset]
    IN  IF IsRaise(pr) THEN [at |-> "raise", exc |-> pr] @@ stay
        ELSE IF ~Truthy(pr) THEN [at |-> "exit", exc |-> Null] @@ stay
        ELSE IF IsRaise(ext) THEN [at |-> "raise", exc |-> ext] @@ stay
        ELSE IF PyLen(pr) < limit
        THEN [at |-> "exit", exc |-> Null, aggregated |-> agg1,
              all_results |-> ext.v, sk |-> offset]
        ELSE [at |-> IF offset + limit <= bound THEN "continue" ELSE "exit",
              exc |-> Null, aggregated |-> agg1,
              all_results |-> ext.v, sk |-> offset + limit]

\* SearchStep keeping the envelope of the latest page
SearchStepLastEnvelope(agg, all, offset, limit, bound, page) ==
    LET agg1 == page
        pr == PageResults(page)
        ext == Extend(all, pr)
        stay == [aggregated |-> agg1, all_results |-> all, sk |-> offset]
    IN  IF IsRaise(pr) THEN [at |-> "raise", exc |-> pr] @@ stay
        ELSE IF ~Truthy(pr) THEN [at |-> "exit", exc |-> Null] @@ stay
        ELSE IF IsRaise(ext) THEN [at |-> "raise", exc |-> ext] @@ stay
        ELSE IF PyLen(pr) < limit
        THEN [at |-> "exit", exc |-> Null, aggregated |-> agg1,
              all_results |-> ext.v, sk |-> offset]
        ELSE [at |-> IF offset + limit < bound THEN "continue" ELSE "exit",
              exc |-> Null, aggregated |-> agg1,
              all_results |-> ext.v, sk |-> offset + limit]

\* One iteration of the while loop on the page the request returned.
\* at: "continue" (next iteration), "exit" (break, or the loop condition
\* became false) or "raise".
SearchStep(agg, all, offset, limit, bound, page) ==
    LET agg1 == IF ~Truthy(agg) THEN page ELSE agg
        pr == PageResults(page)
        ext == Extend(all, pr)
        stay == [aggregated |-> agg1, all_results |-> all, sk |-> offset]
    IN  IF IsRaise(pr) THEN [at |-> "raise", exc |-> pr] @@ stay
        ELSE IF ~Truthy(pr) THEN [at |-> "exit", exc |-> Null] @@ stay
        ELSE IF IsRaise(ext) THEN [at |-> "raise", exc |-> ext] @@ stay
        ELSE IF PyLen(pr) < limit
        THEN [at |-> "exit", exc |-> Null, aggregated |-> agg1,
              all_results |-> ext.v, sk |-> offset]
        ELSE [at |-> IF offset + limit < bound THEN "continue" ELSE "exit",
              exc |-> Null, aggregated |-> agg1,
              all_results |-> ext.v, sk |-> offset + limit]

\* "put back aggregated results" and return
Merge(agg, all) ==
    LET agg1 == IF ~Has(agg, "legalmap") THEN Put(agg, "legalmap", EmptyDict) ELSE agg
        lm == agg1.v["legalmap"]
    IN  IF IsDict(lm)
        THEN Put(agg1, "legalmap", Put(lm, "search_results", List(all)))
        ELSE Raise("TypeError")

(***************************************************************************)
(* get_bundle_for_siren: query derivation, date window, filtering,         *)
(* enrichment order.                                                       *)
(***************************************************************************)
Quote == "\""

\* the chained lookup of the legal name
Denomination(rne) ==
    Get(Get(Get(Get(Get(Get(Or(rne, EmptyDict),
        "formality", EmptyDict), "content", EmptyDict), "personneMorale", EmptyDict),
        "identite", EmptyDict), "entreprise", EmptyDict), "denomination", Null)

\* DeriveQe quoting any string name, blank or not
DeriveQeAnyString(rne, s) ==
    LET denom == Denomination(rne)
    IN  IF ~IsRaise(denom) /\ denom.k = "str"
        THEN <<Quote>> \o Strip(denom.v) \o <<Quote>>
        ELSE s

\* the query expression built from the registry record, else the identifier
DeriveQe(rne, s) ==
    LET denom == Denomination(rne)
    IN  IF ~IsRaise(denom) /\ denom.k = "str" /\ Len(Strip(denom.v)) > 0
        THEN <<Quote>> \o Strip(denom.v) \o <<Quote>>
        ELSE s

IsLeap(y) == (y % 4 = 0 /\ y % 100 # 0) \/ y % 400 = 0

\* start_dt: today a year earlier when days >= 365 (no 29 February in a
\* year that is not leap: datetime.replace raises), else today
StartDate(today, days) ==
    IF days >= DefaultDays
    THEN IF today.month = 2 /\ today.day = 29 /\ ~IsLeap(today.year - 1)
         THEN Raise("ValueError")
         ELSE [k |-> "date", day |-> today.day, month |-> today.month, year |-> today.year - 1]
    ELSE today

\* the results list the filter iterates over
SearchResultsOf(search) ==
    Or(Get(Or(Get(search, "legalmap", EmptyDict), EmptyDict), "search_results", EmptyList),
       EmptyList)

\* str(res.get("rne", {}).get("siren", "")).zfill(9), or the exception
OwnerOf(res) ==
    LET sir == Get(Get(res, "rne", EmptyDict), "siren", Str(<<>>))
    IN  IF IsRaise(sir) THEN sir ELSE Str(Zfill(PyStr(sir), SirenLen))

\* the filter loop from item i on; an exception ends the loop (the try
\* encloses the whole loop) and keeps what was collected
RECURSIVE FilterFrom(_, _, _, _)
FilterFrom(list, i, acc, s) ==
    IF i > Len(list) THEN acc
    ELSE LET owner == OwnerOf(list[i])
         IN  IF IsRaise(owner) THEN acc
             ELSE IF owner.v = s THEN FilterFrom(list, i + 1, Append(acc, list[i]), s)
             ELSE FilterFrom(list, i + 1, acc, s)

CompanyResults(search, s) ==
    LET src == SearchResultsOf(search)
    IN  IF IsRaise(src) \/ src.k # "list" THEN <<>> ELSE FilterFrom(src.v, 1, <<>>, s)

\* list[:n]
SliceTo(list, n) ==
    IF n >= 0 THEN SubSeq(list, 1, Min(n, Len(list)))
    ELSE SubSeq(list, 1, Max(Len(list) + n, 0))

\* doc.get("acte_id") or doc.get("inpi_id")
PdfId(doc) == Or(Get(doc, "acte_id", Null), Get(doc, "inpi_id", Null))

\* the first position >= i of the slice whose document has an id, or 0
RECURSIVE NextDoc(_, _)
NextDoc(docs, i) ==
    IF i > Len(docs) THEN 0
    ELSE IF Truthy(PdfId(docs[i])) THEN i
    ELSE NextDoc(docs, i + 1)

(***************************************************************************)
(* The dashboard's flattening and comparison table, and the compact JSON   *)
(* text of a payload.                                                      *)
(*                                                                         *)
(* A dict key is a TLA+ string; its text is one token, except for the keys *)
(* that hold path punctuation, which are spelled out.  A flat mapping is a *)
(* function from key texts to values.                                      *)
(***************************************************************************)
DisplayLimit == 2000
CompactLimit == 15000
Ellipsis == <<" ", "u2026">>

\* str(k) of a dict key
KeyText(k) ==
    CASE k = "" -> <<>>
      [] k = "a.b" -> <<"a", ".", "b">>
      [] k = "a[0]" -> <<"a", "[", "0", "]">>
      [] OTHER -> <<k>>

\* the tokens of key texts in ascending code-point order of their spellings
CodeOrder ==
    <<".", "0", "1", "2", "3", "4", "5", "6", "7", "8", "9", "[", "]",
      "_bytes_length", "_content_type", "_count_results", "_note",
      "_pdf_details_top", "_search_raw", "_status_code", "_text_preview",
      "a", "acte_id", "b", "c", "content", "count", "denomination", "entreprise",
      "error", "formality", "id", "identite", "info", "inpi_id", "legalmap",
      "message", "meta", "nom_entreprise", "p", "pages", "personneMorale",
      "rne", "search_company_results", "search_results", "siren">>

CodePoint(c) == CHOOSE i \in 1..Len(CodeOrder) : CodeOrder[i] = c

\* a < b for two texts, as Python compares str
RECURSIVE TextLess(_, _)
TextLess(a, b) ==
    IF Len(b) = 0 THEN FALSE
    ELSE IF Len(a) = 0 THEN TRUE
    ELSE IF Head(a) = Head(b) THEN TextLess(Tail(a), Tail(b))
    ELSE CodePoint(Head(a)) < CodePoint(Head(b))

\* sorted(keys)
RECURSIVE Sorted(_)
Sorted(keys) ==
    IF keys = {} THEN <<>>
    ELSE LET least == CHOOSE x \in keys : \A y \in keys \ {x} : TextLess(x, y)
         IN  <<least>> \o Sorted(keys \ {least})

\* the order in which the keys of documents are written
KeyRank ==
    <<"rne", "search_company_results", "_search_raw", "_count_results",
      "_pdf_details_top", "error", "formality", "content", "personneMorale",
      "identite", "entreprise", "denomination", "meta", "legalmap", "info",
      "search_results", "siren", "nom_entreprise", "acte_id", "inpi_id", "count",
      "id", "pages", "message", "_status_code", "_content_type", "_note",
      "_bytes_length", "_text_preview", "a", "c", "a.b", "a[0]", "", "b">>

RECURSIVE RankedFrom(_, _)
RankedFrom(keys, i) ==
    IF i > Len(KeyRank) THEN <<>>
    ELSE (IF KeyRank[i] \in keys THEN <<KeyRank[i]>> ELSE <<>>) \o RankedFrom(keys, i + 1)

\* the keys of a dict in iteration (insertion) order
KeyOrder(f) == RankedFrom(DOMAIN f, 1)

EmptyFlat == [x \in {} |-> Null]

\* Update dropping what the mapping held before
UpdateReplacing(items, more) == more

\* items.update(more)
Update(items, more) == more @@ items

RECURSIVE flatten(_, _), FlattenFrom(_, _, _, _), FlattenFromAlwaysDot(_, _, _, _)
\* FlattenFrom putting the "." before a key under the empty prefix too
FlattenFromAlwaysDot(obj, parent_key, i, items) ==
    IF obj.k = "dict"
    THEN LET keys == KeyOrder(obj.v)
         IN  IF i > Len(keys) THEN items
             ELSE LET new_key == parent_key \o <<".">> \o KeyText(keys[i])
                  IN  FlattenFromAlwaysDot(obj, parent_key, i + 1,
                                           Update(items, flatten(obj.v[keys[i]], new_key)))
    ELSE IF i > Len(obj.v) THEN items
         ELSE LET new_key == parent_key \o <<"[">> \o IntText(i - 1) \o <<"]">>
              IN  FlattenFromAlwaysDot(obj, parent_key, i + 1,
                                       Update(items, flatten(obj.v[i], new_key)))

\* the loop of flatten over the entries of a dict or list, from the i-th on
FlattenFrom(obj, parent_key, i, items) ==
    IF obj.k = "dict"
    THEN LET keys == KeyOrder(obj.v)
         IN  IF i > Len(keys) THEN items
             ELSE LET new_key == IF Len(parent_key) > 0
                                 THEN parent_key \o <<".">> \o KeyText(keys[i])
                                 ELSE KeyText(keys[i])
                  IN  FlattenFrom(obj, parent_key, i + 1,
                                  Update(items, flatten(obj.v[keys[i]], new_key)))
    ELSE IF i > Len(obj.v) THEN items
         ELSE LET new_key == parent_key \o <<"[">> \o IntText(i - 1) \o <<"]">>
              IN  FlattenFrom(obj, parent_key, i + 1,
                              Update(items, flatten(obj.v[i], new_key)))

flatten(obj, parent_key) ==
    IF obj.k \in {"dict", "list"} THEN FlattenFrom(obj, parent_key, 1, EmptyFlat)
    ELSE (parent_key :> obj)

\* flatten(data) if isinstance(data, dict) else {"": data}
FlatOf(data) == IF IsDict(data) THEN flatten(data, <<>>) ELSE (<<>> :> data)

\* the escapes json.dumps writes inside a string (ensure_ascii=False)
EscapeChar(c) ==
    CASE c = Quote -> <<"\\", Quote>>
      [] c = "\\" -> <<"\\", "\\">>
      [] c = "\t" -> <<"\\", "t">>
      [] OTHER -> <<c>>

RECURSIVE Escaped(_)
Escaped(text) ==
    IF Len(text) = 0 THEN <<>>
    ELSE IF Len(text) = 1 THEN EscapeChar(text[1])
    ELSE LET half == Len(text) \div 2
         IN  Escaped(SubSeq(text, 1, half)) \o Escaped(SubSeq(text, half + 1, Len(text)))

JsonString(text) == <<Quote>> \o Escaped(text) \o <<Quote>>

RECURSIVE JsonDumps(_), DumpsFrom(_, _)
\* the members of a dict or list from the i-th on, joined by ","
DumpsFrom(x, i) ==
    LET n == IF x.k = "dict" THEN Len(KeyOrder(x.v)) ELSE Len(x.v)
        member == IF x.k = "dict"
                  THEN JsonString(KeyText(KeyOrder(x.v)[i])) \o <<":">>
                       \o JsonDumps(x.v[KeyOrder(x.v)[i]])
                  ELSE JsonDumps(x.v[i])
    IN  IF i > n THEN <<>>
        ELSE IF i = n THEN member
        ELSE member \o <<",">> \o DumpsFrom(x, i + 1)

\* json.dumps(x, ensure_ascii=False, separators=(",", ":"))
JsonDumps(x) ==
    CASE x.k = "null" -> <<"n", "u", "l", "l">>
      [] x.k = "num" -> IntText(x.v)
      [] x.k = "str" -> JsonString(x.v)
      [] x.k = "list" -> <<"[">> \o DumpsFrom(x, 1) \o <<"]">>
      [] OTHER -> <<"{">> \o DumpsFrom(x, 1) \o <<"}">>

\* text[:limit] + " …" when the text is longer than limit
Truncated(text, limit) ==
    IF Len(text) > limit THEN SubSeq(text, 1, limit) \o Ellipsis ELSE text

\* _compact_json(data)
CompactJson(data) == Truncated(JsonDumps(data), CompactLimit)

to_display_value(value) ==
    IF value.k = "null" THEN <<>>
    ELSE Truncated(IF value.k \in {"dict", "list"} THEN JsonDumps(value) ELSE PyStr(value),
                   DisplayLimit)

\* flat.get(key)
FlatGet(flat, key) == IF key \in DOMAIN flat THEN flat[key] ELSE Null

\* TableRows over the keys of the first mapping only
TableRowsLeftKeys(flat_a, flat_b) ==
    LET all_keys == Sorted(DOMAIN flat_a)
    IN  [i \in 1..Len(all_keys) |->
            [champ |-> all_keys[i],
             legalmap |-> to_display_value(FlatGet(flat_a, all_keys[i])),
             pappers |-> to_display_value(FlatGet(flat_b, all_keys[i]))]]

\* the rows of the comparison table
TableRows(flat_a, flat_b) ==
    LET all_keys == Sorted(DOMAIN flat_a \cup DOMAIN flat_b)
    IN  [i \in 1..Len(all_keys) |->
            [champ |-> all_keys[i],
             legalmap |-> to_display_value(FlatGet(flat_a, all_keys[i])),
             pappers |-> to_display_value(FlatGet(flat_b, all_keys[i]))]]

(***************************************************************************)
(* The summarization and web research collaborators.  The fixed prompt     *)
(* texts are one token each.                                               *)
(***************************************************************************)
SystemMsg == <<"system_msg">>
UserIntro == <<"user_intro">>
ResearchMsg == <<"research_system_msg">>
ResearchIntro == <<"research_intro">>
NoText == Str(<<>>)

\* the messages handed to the chat completion, with what came of them
ChatRequest(via, payload, out) ==
    [route |-> "chat",
     params |-> [via |-> via, system |-> SystemMsg, user |-> UserIntro \o payload],
     answer |-> out]

\* _summarize_with_openai: the value (or exception) and the requests sent
SummarizeWithOpenai(payload, has_package, has_key, reply) ==
    IF ~has_package \/ ~has_key THEN [value |-> Raise("RuntimeError"), sent |-> <<>>]
    ELSE [value |-> IF IsRaise(reply) THEN reply ELSE Or(reply, NoText),
          sent |-> <<ChatRequest("openai", payload, reply)>>]

\* _summarize_with_ag2; provider names what can be imported
SummarizeWithAg2(payload, provider, has_key, reply) ==
    IF provider # "ag2" THEN SummarizeWithOpenai(payload, provider = "openai", has_key, reply)
    ELSE IF ~has_key THEN [value |-> Raise("RuntimeError"), sent |-> <<>>]
    ELSE [value |-> IF IsRaise(reply) THEN reply
                    ELSE IF IsDict(reply) THEN Get(reply, "content", NoText)
                    ELSE Str(PyStr(Or(reply, NoText))),
          sent |-> <<ChatRequest("ag2", payload, reply)>>]

summarize_company(data, provider, has_key, reply) ==
    SummarizeWithAg2(CompactJson(data), provider, has_key, reply)

\* data["choices"][0]["message"]["content"] or "", "" when a lookup fails
ContentOf(data) ==
    IF /\ Has(data, "choices") /\ data.v["choices"].k = "list"
       /\ Len(data.v["choices"].v) > 0
       /\ Has(data.v["choices"].v[1], "message")
       /\ Has(data.v["choices"].v[1].v["message"], "content")
    THEN Or(data.v["choices"].v[1].v["message"].v["content"], NoText)
    ELSE NoText

\* the name hint the dashboard reads out of the LegalMap payload
DenomHint(data) ==
    LET hint == Denomination(Get(Or(data, EmptyDict), "rne", EmptyDict))
    IN  IF IsRaise(hint) THEN Null ELSE hint

\* research_company_perplexity: the value (or exception) and the requests sent
research_company_perplexity(id, denomination, has_key, resp) ==
    LET hints == <<"SIREN: ">> \o id \o
                 (IF Truthy(denomination)
                  THEN <<"\n", "Denomination: ">> \o PyStr(denomination) ELSE <<>>)
        out == IF resp.kind = "conn" THEN Raise("ConnectionError")
               ELSE IF ~resp.isjson THEN Raise("JSONDecodeError")
               ELSE IF resp.status >= 400 THEN HTTPError(resp.status, resp.data)
               ELSE ContentOf(resp.data)
    IN  IF ~has_key THEN [value |-> Raise("RuntimeError"), sent |-> <<>>]
        ELSE [value |-> out,
              sent |-> <<[route |-> "perplexity",
                          params |-> [system |-> ResearchMsg, user |-> ResearchIntro \o hints],
                          answer |-> out]>>]

\* f"{label}{exc}"
ErrorText(label, exc) == Str(<<label>> \o ExcText(exc))

(***************************************************************************)
(* The universes the operations are exercised in.  scope names what is     *)
(* explored in breadth: "validate" the identifier texts, "search" the      *)
(* page sequences of a standalone search_all_documents, "query" the        *)
(* registry records and dates of a bundle, "docs" the documents of a       *)
(* bundle, "flat" the trees flattened and compared, "dash" the outcomes of  *)
(* the dashboard's collaborators, "http" the responses _request meets.     *)
(* Every scope runs every operation.                                       *)
(***************************************************************************)
Q1 == <<"0", "0", "0", "0", "0", "0", "1", "2", "3">>
Q2 == <<"0", "0", "0", "0", "0", "0", "1", "2", "4">>
ShortSiren == <<"1", "2", "3", "4", "5", "6", "7", "8">>
BaseDigits == <<"5", "5", "2", "1", "0", "0", "5", "5", "4", "7", "3", "9", "6", "8">>
OddChars == {" ", "a", "u0665"}
ExampleName == <<"E", "X", "A", "M", "P", "L", "E", " ", "S", "A">>

\* the texts of length len that differ from the digit text in at most
\* MaxOdd places
Variants(len) ==
    UNION {{[i \in 1..len |-> IF i \in P THEN f[i] ELSE BaseDigits[i]] : f \in [P -> OddChars]} :
           P \in {X \in SUBSET (1..len) : Cardinality(X) <= MaxOdd}}

SirenInputs(sc) ==
    CASE sc = "validate" -> UNION {Variants(len) : len \in 0..(SirenLen + MaxExtra)}
      [] sc = "query" -> {Q1, <<" ">> \o Q1, ShortSiren}
      [] OTHER -> {Q1, ShortSiren}

OrdinaryDay == [k |-> "date", day |-> 4, month |-> 11, year |-> 2026]
LeapDay == [k |-> "date", day |-> 29, month |-> 2, year |-> 2028]
Todays(sc) == IF sc = "query" THEN {OrdinaryDay, LeapDay} ELSE {OrdinaryDay}
DaysChoices(sc) == IF sc = "query" THEN {DefaultDays - 1, DefaultDays} ELSE {DefaultDays}
TopChoices(sc) == IF sc = "docs" THEN {-1, 0, 1, DefaultTop} ELSE {DefaultTop}
PageSizes(sc) == IF sc = "search" THEN (-1..MaxPageSize) \cup {DefaultPageSize} ELSE {DefaultPageSize}
MaxResultsChoices(sc) ==
    IF sc = "search" THEN (0..(MaxPageSize + 1)) \cup {250, DefaultMaxResults}
    ELSE {DefaultMaxResults}

\* the values a tree bottoms out in
Scalars == {Num(1), Num(2)}

\* the dicts over at most two of the given keys, with values in X
DictsOver(keys, X) ==
    UNION {{Dict(f) : f \in [K -> X]} :
           K \in {K \in SUBSET keys : \E x, y \in keys : K \subseteq {x, y}}}

\* the lists of at most n members of X
ListsOver(n, X) == UNION {{List(l) : l \in [1..m -> X]} : m \in 0..n}

InnerTrees == Scalars \cup ListsOver(MaxWidth, Scalars) \cup DictsOver({"a", "b"}, Scalars)

\* the trees handed to a direct call of flatten
Trees(sc) ==
    IF sc = "flat"
    THEN InnerTrees \cup DictsOver({"a", "c", "a.b", ""}, InnerTrees)
         \cup {List(<<x>>) : x \in InnerTrees}
         \cup {List(<<x, y>>) : x, y \in InnerTrees}
    ELSE {Dict([a |-> Dict([b |-> Num(1)]), c |-> List(<<Num(1), Num(2)>>)])}

Prefixes(sc) == IF sc = "flat" THEN {<<>>, <<"p">>} ELSE {<<>>}

\* a registry record holding x at the legal-name path
WithName(x) ==
    Dict([formality |-> Dict([content |-> Dict([personneMorale |->
        Dict([identite |-> Dict([entreprise |-> Dict([denomination |-> x])])])])])])
ExampleRne == WithName(Str(ExampleName))

\* the payloads the two sources answer with, and summaries are made of
SampleTrees ==
    { Dict([a |-> Dict([b |-> Num(1)]), c |-> List(<<Num(1), Num(2)>>)]),
      Dict([a |-> Num(1)]),
      Dict([rne |-> Dict([a |-> Num(2)]), error |-> Str(<<"x">>)]),
      Dict(("a.b" :> Num(2)) @@ ("a" :> Dict([b |-> Null]))),
      Dict([c |-> List(<<Str(<<"x", Quote>>), EmptyDict>>), b |-> EmptyList]),
      List(<<Num(1), Dict([a |-> Null])>>),
      ExampleRne }

\* registry records whose legal-name path is cut by x at each depth
CutAt(x) ==
    { Dict([formality |-> x]),
      Dict([formality |-> Dict([content |-> x])]),
      Dict([formality |-> Dict([content |-> Dict([personneMorale |-> x])])]),
      Dict([formality |-> Dict([content |-> Dict([personneMorale |-> Dict([identite |-> x])])])]),
      Dict([formality |-> Dict([content |-> Dict([personneMorale |->
          Dict([identite |-> Dict([entreprise |-> x])])])])]) }

RneRecords(sc) ==
    IF sc = "flat" THEN SampleTrees
    ELSE IF sc = "dash" THEN {ExampleRne}
    ELSE IF sc = "query"
    THEN {WithName(x) : x \in {Str(ExampleName), Str(<<" ", "E", "X", " ">>), Str(<<>>),
                               Str(<<" ", "\t">>), Num(7), Null, List(<<Str(<<"E">>)>>)}}
         \cup CutAt(Null) \cup CutAt(Str(<<"x">>)) \cup CutAt(EmptyDict)
         \cup {EmptyDict, Null, List(<<Num(1)>>), Dict([siren |-> Str(Q1)])}
    ELSE {ExampleRne}

Failures(sc) ==
    IF sc \in {"query", "docs"}
    THEN {JsonResp(500, ErrBody), RawResp(502, HtmlType, <<"b", "a", "d">>, 3), ConnFail}
    ELSE {JsonResp(500, ErrBody)}

\* status codes of every class, the edges of the error classes, and codes
\* beyond the standard classes
HttpStatuses == {200, 204, 299, 302, 400, 404, 500, 599, 600, 999}

OctetType == <<"application", "/", "octet-stream">>
HtmlUtf8Type == <<"text", "/", "html", ";", " ", "charset=utf-8">>
LongText == [i \in 1..(PreviewLen + 1) |-> "x"]

HttpResponses ==
    {JsonResp(st, d) : st \in HttpStatuses,
                       d \in {ExampleRne, ErrBody, List(<<Num(1)>>)}}
    \cup {RawResp(st, PdfType, <<>>, 5) : st \in HttpStatuses}
    \cup {RawResp(st, OctetType, <<>>, 0) : st \in HttpStatuses}
    \cup {RawResp(st, HtmlType, <<"o", "k">>, 2) : st \in HttpStatuses}
    \cup {RawResp(st, HtmlUtf8Type, LongText, PreviewLen + 1) : st \in HttpStatuses}
    \cup {RawResp(st, <<>>, <<>>, 0) : st \in HttpStatuses}
    \cup {ConnFail}

RneResponses(sc) ==
    IF sc = "http" THEN HttpResponses ELSE
    {JsonResp(200, r) : r \in RneRecords(sc)} \cup Failures(sc)
    \cup (IF sc = "query" THEN {RawResp(200, PdfType, <<>>, 5), JsonResp(404, ErrBody)} ELSE {})

\* a document of the company owner with document id "A"
OwnDoc(owner) == Dict([rne |-> Dict([siren |-> Str(owner)]), acte_id |-> Str(<<"A">>)])

DocShapes ==
    { OwnDoc(Q1),
      Dict([rne |-> Dict([siren |-> Num(123)]), inpi_id |-> Str(<<"I">>)]),
      Dict([rne |-> Dict([siren |-> Str(Q2)]), acte_id |-> Str(<<"B">>)]),
      Dict([rne |-> Null, acte_id |-> Str(<<"C">>)]),
      Dict([rne |-> Dict([siren |-> Str(Q1)])]),
      Dict([acte_id |-> Str(<<"D">>)]),
      Dict([rne |-> Dict([siren |-> Str(<<"1", "2", "3">>)]),
            acte_id |-> Str(<<>>), inpi_id |-> Num(7)]) }

DocLists == UNION {[1..n -> DocShapes] : n \in 0..MaxDocs}

\* a well-formed search page
Page(meta, results) ==
    Dict([meta |-> Num(meta),
          legalmap |-> Dict([info |-> Num(meta), search_results |-> List(results)])])

\* the items of the k-th page of a standalone search, each one of a kind
Items(k, n) == [i \in 1..n |-> Dict([acte_id |-> Num(1000 * k + i)])]

\* result counts a server may answer a request of limit ps with
Lens(ps) == {n \in (0..(MaxPageSize + 1)) \cup {37, DefaultPageSize} : n <= Max(ps, 0) + 1}

OddPages(k) ==
    { EmptyDict, Null,
      Dict([meta |-> Num(k)]),
      Dict([meta |-> Num(k), legalmap |-> Null]),
      Dict([meta |-> Num(k), legalmap |-> Str(<<"x">>)]),
      Dict([meta |-> Num(k), legalmap |-> Dict([info |-> Num(k)])]),
      Dict([meta |-> Num(k), legalmap |-> Dict([info |-> Num(k), search_results |-> Null])]),
      Dict([meta |-> Num(k), legalmap |-> Dict([search_results |-> Num(5)])]),
      Dict([meta |-> Num(k), legalmap |-> Dict([search_results |-> Str(<<"a", "b">>)])]) }

\* the answers to the k-th page request, of limit ps, for the company owner;
\* standalone: the request comes from a direct call of search_all_documents
PageResponses(sc, standalone, k, ps, owner) ==
    CASE sc = "search" /\ standalone ->
            {JsonResp(200, Page(k, Items(k, n))) : n \in Lens(ps)}
            \cup {JsonResp(200, p) : p \in OddPages(k)}
            \cup {JsonResp(500, ErrBody), RawResp(200, PdfType, <<>>, 5)}
      [] sc = "docs" -> {JsonResp(200, Page(k, l)) : l \in DocLists} \cup Failures(sc)
      [] OTHER -> {JsonResp(200, Page(k, <<OwnDoc(owner)>>))} \cup Failures(sc)

CountResponses(sc) == {JsonResp(200, Dict([count |-> Num(1)]))} \cup Failures(sc)

PdfResponses(sc, id) ==
    {JsonResp(200, Dict([id |-> id, pages |-> Num(2)])), JsonResp(404, ErrBody)}
    \cup (IF sc = "docs" THEN {RawResp(200, PdfType, <<>>, 5), ConnFail} ELSE {})

PappersResponses(sc, owner) ==
    {JsonResp(200, Dict([siren |-> Str(owner), nom_entreprise |-> Str(ExampleName)])),
     JsonResp(401, ErrBody), RawResp(200, HtmlType, <<"o", "k">>, 2),
     RawResp(503, HtmlType, <<>>, 0)}
    \cup (IF sc = "flat" THEN {JsonResp(200, x) : x \in SampleTrees} ELSE {})

\* the payloads handed to a direct call of summarize_company
Payloads(sc) ==
    IF sc = "dash"
    THEN {Dict([a |-> Num(1)]), Dict([b |-> List(<<Num(2), Str(<<"x">>)>>)]), ErrBody}
    ELSE {ErrBody}

\* what the chat completion gives back: a reply, or an exception
ChatReplies ==
    {Str(<<"r", "e", "p">>), Null, Dict([content |-> Str(<<"r", "e", "p">>)]),
     Raise("APIError")}

\* what a summarize call finds: the package that imports, whether the API
\* key is set, and the completion's reply
ChatEnvs(sc) ==
    IF sc = "dash"
    THEN [provider : {"ag2", "openai", "none"}, has_key : BOOLEAN, reply : ChatReplies]
    ELSE {[provider |-> "ag2", has_key |-> TRUE, reply |-> Str(<<"r", "e", "p">>)]}

\* a chat completion answer holding text x
Completion(x) ==
    Dict([choices |-> List(<<Dict([message |-> Dict([content |-> x])])>>)])

ResearchResponses ==
    {JsonResp(200, Completion(Str(<<"w", "e", "b">>))), JsonResp(200, Completion(Null)),
     JsonResp(200, EmptyDict), JsonResp(429, ErrBody),
     RawResp(502, HtmlType, <<"b", "a", "d">>, 3), ConnFail}

\* what the research call finds: whether its API key is set, and the response
ResearchEnvs(sc) ==
    IF sc = "dash" THEN [has_key : BOOLEAN, resp : ResearchResponses]
    ELSE {[has_key |-> TRUE, resp |-> JsonResp(200, Completion(Str(<<"w", "e", "b">>)))]}

(***************************************************************************)
(* State.                                                                  *)
(***************************************************************************)
VARIABLES
    scope,            \* the universe explored (fixed by Init)
    siren_input,      \* the identifier text handed to the operation
    today,            \* datetime.today()
    op,               \* the public operation running
    pc,               \* its position
    requests,         \* the HTTP requests issued so far, with their outcome
    result,           \* the value returned or exception raised to the caller
    page_size, max_results, sk, aggregated, all_results,  \* search_all_documents
    s, rne, qe, date_from, date_to, search, count,        \* get_bundle_for_siren
    company_results, pdf_details, top, doc_i,
    siren, legalmap_data, pappers_data,                   \* the dashboard
    flat_lm, flat_pp, rows, summary_lm, summary_pp, px_research,
    obj, parent_key,                                      \* flatten
    response          \* the HTTP response the last request got

env == <<scope, siren_input, today>>
vars == <<scope, siren_input, today, op, pc, requests, result,
          page_size, max_results, sk, aggregated, all_results,
          s, rne, qe, date_from, date_to, search, count,
          company_results, pdf_details, top, doc_i,
          siren, legalmap_data, pappers_data,
          flat_lm, flat_pp, rows, summary_lm, summary_pp, px_research,
          obj, parent_key, response>>

Undef == [k |-> "undef"]

\* the current state as one record; an operation is a function from it to
\* the next one
Cur ==
    [op |-> op, pc |-> pc, requests |-> requests, result |-> result,
     page_size |-> page_size, max_results |-> max_results, sk |-> sk,
     aggregated |-> aggregated, all_results |-> all_results,
     s |-> s, rne |-> rne, qe |-> qe, date_from |-> date_from, date_to |-> date_to,
     search |-> search, count |-> count, company_results |-> company_results,
     pdf_details |-> pdf_details, top |-> top, doc_i |-> doc_i,
     siren |-> siren, legalmap_data |-> legalmap_data, pappers_data |-> pappers_data,
     flat_lm |-> flat_lm, flat_pp |-> flat_pp, rows |-> rows,
     summary_lm |-> summary_lm, summary_pp |-> summary_pp, px_research |-> px_research,
     obj |-> obj, parent_key |-> parent_key, response |-> response]

Become(n) ==
    /\ op' = n.op /\ pc' = n.pc /\ requests' = n.requests /\ result' = n.result
    /\ page_size' = n.page_size /\ max_results' = n.max_results /\ sk' = n.sk
    /\ aggregated' = n.aggregated /\ all_results' = n.all_results
    /\ s' = n.s /\ rne' = n.rne /\ qe' = n.qe
    /\ date_from' = n.date_from /\ date_to' = n.date_to
    /\ search' = n.search /\ count' = n.count
    /\ company_results' = n.company_results /\ pdf_details' = n.pdf_details
    /\ top' = n.top /\ doc_i' = n.doc_i
    /\ siren' = n.siren /\ legalmap_data' = n.legalmap_data
    /\ pappers_data' = n.pappers_data
    /\ flat_lm' = n.flat_lm /\ flat_pp' = n.flat_pp /\ rows' = n.rows
    /\ summary_lm' = n.summary_lm /\ summary_pp' = n.summary_pp
    /\ px_research' = n.px_research
    /\ obj' = n.obj /\ parent_key' = n.parent_key /\ response' = n.response
    /\ UNCHANGED env

(***************************************************************************)
(* Requests as logged: the route, its parameters and what _request made of *)
(* the response (a value, or the exception it raised).                     *)
(***************************************************************************)
RneRequest(id, out) == [route |-> "rne", params |-> [siren |-> id], answer |-> out]

SearchRequest(from, to, q, skip, limit, out) ==
    [route |-> "search",
     params |-> [search_date_from |-> from, search_date_to |-> to,
                 results_group_by |-> "COMPANIES", results_sort_by |-> "SCORES",
                 sk |-> skip, lm |-> limit, has_qe |-> Len(q) > 0, qe |-> q],
     answer |-> out]

CountRequest(from, to, q, out) ==
    [route |-> "search/count_results",
     params |-> [search_date_from |-> from, search_date_to |-> to, qe |-> q],
     answer |-> out]

PdfRequest(id, q, out) ==
    [route |-> "pdfs", params |-> [id |-> id, pages |-> "all", highlight |-> q],
     answer |-> out]

PappersEntreprise(id, out) ==
    [route |-> "entreprise", params |-> [siren |-> id], answer |-> out]

Routes(log) == [i \in 1..Len(log) |-> log[i].route]
Failed(e) == IsRaise(e.answer)
IsSearch(e) == e.route = "search"
PagesIssued(log) == Cardinality({i \in 1..Len(log) : log[i].route = "search"})

(***************************************************************************)
(* The operations, as functions on the state record.                       *)
(***************************************************************************)
\* an operation called from outside ends: it returns val or raises it
Finish(c, val) ==
    [c EXCEPT !.result = val, !.pc = IF IsRaise(val) THEN "raised" ELSE "returned"]

\* EndBundle without the dashboard's try/except
EndBundleUnguarded(c, val) == Finish(c, val)

\* get_bundle_for_siren ends: to its caller, or into the dashboard's
\* try/except, which turns an exception into {"error": str(exc)}
EndBundle(c, val) ==
    IF c.op = "compare"
    THEN [c EXCEPT !.legalmap_data = IF IsRaise(val) THEN ErrorMarker(val) ELSE val,
                   !.pc = "dash_pappers"]
    ELSE Finish(c, val)

\* search_all_documents ends: to its caller, or back into the bundle, where
\* the call is not guarded
EndSearch(c, val) ==
    IF c.op = "search_all_documents" THEN Finish(c, val)
    ELSE IF IsRaise(val) THEN EndBundle(c, val)
    ELSE [c EXCEPT !.search = val, !.pc = "bundle_count"]

\* CompanyBySiren issuing its request before it validates
CompanyBySirenSendsFirst(id, resp) ==
    LET v == ValidateSiren(id)
        out == LegalMapRequest(resp)
    IN  IF IsRaise(v) THEN [value |-> v, sent |-> <<RneRequest(Strip(id), out)>>]
        ELSE [value |-> out, sent |-> <<RneRequest(v.v, out)>>]

\* get_company_by_siren: the value (or exception) and the requests sent
CompanyBySiren(id, resp) ==
    LET v == ValidateSiren(id)
        out == LegalMapRequest(resp)
    IN  IF IsRaise(v) THEN [value |-> v, sent |-> <<>>]
        ELSE [value |-> out, sent |-> <<RneRequest(v.v, out)>>]

\* get_entreprise_by_siren: the value (or exception) and the requests sent
EntrepriseBySiren(id, resp) ==
    LET v == ValidateSiren(id)
        out == PappersRequest(resp)
    IN  IF IsRaise(v) THEN [value |-> v, sent |-> <<>>]
        ELSE [value |-> out, sent |-> <<PappersEntreprise(v.v, out)>>]

\* search_all_documents up to its first page request
EnterSearch(c, from, to, q, ps, mr) ==
    LET c1 == [c EXCEPT !.page_size = ps, !.max_results = mr, !.sk = 0,
                        !.aggregated = EmptyDict, !.all_results = <<>>,
                        !.qe = q, !.date_from = from, !.date_to = to]
    IN  IF 0 < mr THEN [c1 EXCEPT !.pc = "search_loop"]
        ELSE EndSearch(c1, Merge(EmptyDict, <<>>))

\* one page request of search_all_documents and what follows it, up to the
\* next request
SearchIteration(c, resp) ==
    LET page == LegalMapRequest(resp)
        c1 == [c EXCEPT !.requests =
                   Append(@, SearchRequest(c.date_from, c.date_to, c.qe, c.sk,
                                           c.page_size, page))]
        st == SearchStep(c.aggregated, c.all_results, c.sk, c.page_size, c.max_results, page)
        c2 == [c1 EXCEPT !.aggregated = st.aggregated, !.all_results = st.all_results,
                         !.sk = st.sk]
    IN  IF IsRaise(page) THEN EndSearch(c1, page)
        ELSE IF st.at = "raise" THEN EndSearch(c2, st.exc)
        ELSE IF st.at = "exit" THEN EndSearch(c2, Merge(st.aggregated, st.all_results))
        ELSE c2

\* the five parts of the bundle
BundleValue(c) ==
    Dict([rne |-> c.rne,
          search_company_results |-> List(c.company_results),
          _search_raw |-> c.search,
          _count_results |-> c.count,
          _pdf_details_top |-> List(c.pdf_details)])

\* the enrichment loop from position i of the slice on, up to its next
\* request or to the return
Enrich(c, i) ==
    LET j == NextDoc(SliceTo(c.company_results, c.top), i)
    IN  IF j = 0 THEN EndBundle(c, BundleValue(c))
        ELSE [c EXCEPT !.pc = "bundle_pdf", !.doc_i = j]

CountFailed == Dict([error |-> Str(<<"count_results failed">>)])

\* CountOrMarker without the guard
CountOrRaise(out) == out

\* the guarded count call: its value, or the marker when it raised
CountOrMarker(out) == IF IsRaise(out) THEN CountFailed ELSE out

\* BundleStart going on with an empty record when the registry fetch raised
BundleStartTolerant(c, id, days, topN, resp) ==
    LET v == ValidateSiren(id)
        got == CompanyBySiren(v.v, resp)
        record == IF IsRaise(got.value) THEN EmptyDict ELSE got.value
        q == DeriveQe(record, v.v)
        st == StartDate(today, days)
        c1 == [c EXCEPT !.requests = @ \o got.sent]
        c2 == [c1 EXCEPT !.s = v.v, !.rne = record, !.top = topN, !.qe = q]
    IN  IF IsRaise(v) THEN EndBundle(c, v)
        ELSE IF IsRaise(st) THEN EndBundle(c2, st)
        ELSE EnterSearch(c2, st, today, q, DefaultPageSize, DefaultMaxResults)

\* get_bundle_for_siren from its validation to the first page request
BundleStart(c, id, days, topN, resp) ==
    LET v == ValidateSiren(id)
        got == CompanyBySiren(v.v, resp)
        q == DeriveQe(got.value, v.v)
        st == StartDate(today, days)
        c1 == [c EXCEPT !.requests = @ \o got.sent]
        c2 == [c1 EXCEPT !.s = v.v, !.rne = got.value, !.top = topN, !.qe = q]
    IN  IF IsRaise(v) THEN EndBundle(c, v)
        ELSE IF IsRaise(got.value) THEN EndBundle(c1, got.value)
        ELSE IF IsRaise(st) THEN EndBundle(c2, st)
        ELSE EnterSearch(c2, st, today, q, DefaultPageSize, DefaultMaxResults)

\* the count request, the filter and the enrichment up to its first request
CountStep(c, resp) ==
    LET out == LegalMapRequest(resp)
        c1 == [c EXCEPT !.requests = Append(@, CountRequest(c.date_from, c.date_to, c.qe, out)),
                        !.count = CountOrMarker(out),
                        !.company_results = CompanyResults(c.search, c.s),
                        !.pdf_details = <<>>]
    IN  Enrich(c1, 1)

\* one detail request: its answer is kept, its exception skipped
PdfStep(c, resp) ==
    LET out == LegalMapRequest(resp)
        doc == SliceTo(c.company_results, c.top)[c.doc_i]
        c1 == [c EXCEPT !.requests = Append(@, PdfRequest(PdfId(doc), c.qe, out)),
                        !.pdf_details = IF IsRaise(out) THEN @ ELSE Append(@, out)]
    IN  Enrich(c1, c.doc_i + 1)

\* the dashboard's handler up to its first request
Compare(c, has_token, resp) ==
    LET text == RemoveSpaces(Strip(siren_input))
        c1 == [c EXCEPT !.op = "compare", !.siren = text]
    IN  IF ~is_valid_siren(text) THEN [c1 EXCEPT !.pc = "dash_rejected"]
        ELSE IF ~has_token THEN EndBundle(c1, Raise("RuntimeError"))
        ELSE BundleStart(c1, text, DefaultDays, 0, resp)

\* the dashboard's second source, the flattening and the comparison table
ComparePappersStep(c, has_token, resp) ==
    LET got == EntrepriseBySiren(c.siren, resp)
        val == IF has_token THEN got.value ELSE Raise("RuntimeError")
        data == IF IsRaise(val) THEN ErrorMarker(val) ELSE val
    IN  [c EXCEPT !.requests = IF has_token THEN @ \o got.sent ELSE @,
                  !.pappers_data = data,
                  !.flat_lm = FlatOf(c.legalmap_data),
                  !.flat_pp = FlatOf(data),
                  !.rows = TableRows(FlatOf(c.legalmap_data), FlatOf(data)),
                  !.pc = "dash_fetched"]

\* the summary of the LegalMap payload
SummaryLmStep(c, provider, has_key, reply) ==
    LET got == summarize_company(c.legalmap_data, provider, has_key, reply)
    IN  [c EXCEPT !.requests = @ \o got.sent,
                  !.summary_lm = IF IsRaise(got.value)
                                 THEN ErrorText("Erreur de synthese: ", got.value)
                                 ELSE got.value,
                  !.pc = "dash_summary_pp"]

\* SummaryPpStep handing both payloads to the summarizer
SummaryPpStepShared(c, provider, has_key, reply) ==
    LET got == summarize_company(List(<<c.legalmap_data, c.pappers_data>>),
                                 provider, has_key, reply)
    IN  [c EXCEPT !.requests = @ \o got.sent,
                  !.summary_pp = IF IsRaise(got.value)
                                 THEN ErrorText("Erreur de synthese: ", got.value)
                                 ELSE got.value,
                  !.pc = "dash_research"]

\* the summary of the Pappers payload
SummaryPpStep(c, provider, has_key, reply) ==
    LET got == summarize_company(c.pappers_data, provider, has_key, reply)
    IN  [c EXCEPT !.requests = @ \o got.sent,
                  !.summary_pp = IF IsRaise(got.value)
                                 THEN ErrorText("Erreur de synthese: ", got.value)
                                 ELSE got.value,
                  !.pc = "dash_research"]

\* the web research, which ends the handler
ResearchStep(c, has_key, resp) ==
    LET got == research_company_perplexity(c.siren, DenomHint(c.legalmap_data), has_key, resp)
    IN  [c EXCEPT !.requests = @ \o got.sent,
                  !.px_research = IF IsRaise(got.value)
                                  THEN ErrorText("Erreur Perplexity (recherche): ", got.value)
                                  ELSE got.value,
                  !.pc = "dash_done"]

\* a direct call of flatten
FlattenCall(c, tree, prefix) ==
    [c EXCEPT !.op = "flatten", !.obj = tree, !.parent_key = prefix,
              !.result = [k |-> "flat", v |-> flatten(tree, prefix)],
              !.pc = "returned"]

\* a direct call of summarize_company
SummarizeCall(c, data, provider, has_key, reply) ==
    LET got == summarize_company(data, provider, has_key, reply)
    IN  Finish([c EXCEPT !.op = "summarize_company", !.obj = data,
                         !.requests = @ \o got.sent], got.value)

(***************************************************************************)
(* Actions.                                                                *)
(***************************************************************************)
Start(sc) ==
    /\ scope = sc
    /\ siren_input \in SirenInputs(sc)
    /\ today \in Todays(sc)
    /\ op = "none" /\ pc = "idle" /\ requests = <<>> /\ result = Undef
    /\ page_size = 0 /\ max_results = 0 /\ sk = 0
    /\ aggregated = Undef /\ all_results = <<>>
    /\ s = <<>> /\ rne = Undef /\ qe = <<>> /\ date_from = Undef /\ date_to = Undef
    /\ search = Undef /\ count = Undef
    /\ company_results = <<>> /\ pdf_details = <<>> /\ top = 0 /\ doc_i = 0
    /\ siren = <<>> /\ legalmap_data = Undef /\ pappers_data = Undef
    /\ flat_lm = EmptyFlat /\ flat_pp = EmptyFlat /\ rows = <<>>
    /\ summary_lm = Undef /\ summary_pp = Undef /\ px_research = Undef
    /\ obj = Undef /\ parent_key = <<>> /\ response = Undef

InitValidate == Start("validate")
InitSearch == Start("search")
InitQuery == Start("query")
InitDocs == Start("docs")
InitFlat == Start("flat")
InitDash == Start("dash")
InitHttp == Start("http")
Init == InitSearch

GetCompanyBySiren ==
    /\ pc = "idle"
    /\ \E resp \in RneResponses(scope) :
          LET got == CompanyBySiren(siren_input, resp)
          IN  Become(Finish([Cur EXCEPT !.op = "get_company_by_siren", !.response = resp,
                                        !.requests = @ \o got.sent], got.value))

GetEntrepriseBySiren ==
    /\ pc = "idle"
    /\ \E resp \in PappersResponses(scope, Strip(siren_input)) :
          LET got == EntrepriseBySiren(siren_input, resp)
          IN  Become(Finish([Cur EXCEPT !.op = "get_entreprise_by_siren", !.response = resp,
                                        !.requests = @ \o got.sent], got.value))

SearchAllDocuments ==
    /\ pc = "idle"
    /\ \E ps \in PageSizes(scope), mr \in MaxResultsChoices(scope) :
          Become(EnterSearch([Cur EXCEPT !.op = "search_all_documents"],
                             OrdinaryDay, today, <<"q">>, ps, mr))

SearchPage ==
    /\ pc = "search_loop"
    /\ PagesIssued(requests) < MaxPages
    /\ \E resp \in PageResponses(scope, op = "search_all_documents",
                                 PagesIssued(requests) + 1, page_size,
                                 IF op = "search_all_documents" THEN Q1 ELSE s) :
          Become(SearchIteration([Cur EXCEPT !.response = resp], resp))

GetBundleForSiren ==
    /\ pc = "idle"
    /\ \E days \in DaysChoices(scope), topN \in TopChoices(scope),
          resp \in RneResponses(scope) :
          Become(BundleStart([Cur EXCEPT !.op = "get_bundle_for_siren", !.response = resp],
                             siren_input, days, topN, resp))

BundleCount ==
    /\ pc = "bundle_count"
    /\ \E resp \in CountResponses(scope) :
          Become(CountStep([Cur EXCEPT !.response = resp], resp))

BundlePdf ==
    /\ pc = "bundle_pdf"
    /\ \E resp \in PdfResponses(scope, PdfId(SliceTo(company_results, top)[doc_i])) :
          Become(PdfStep([Cur EXCEPT !.response = resp], resp))

CompareClicked ==
    /\ pc = "idle"
    /\ \E has_token \in BOOLEAN, resp \in RneResponses(scope) :
          Become(Compare([Cur EXCEPT !.response = resp], has_token, resp))

ComparePappers ==
    /\ pc = "dash_pappers"
    /\ \E has_token \in BOOLEAN, resp \in PappersResponses(scope, siren) :
          Become(ComparePappersStep([Cur EXCEPT !.response = resp], has_token, resp))

CompareSummaryLm ==
    /\ pc = "dash_fetched"
    /\ \E e \in ChatEnvs(scope) :
          Become(SummaryLmStep(Cur, e.provider, e.has_key, e.reply))

CompareSummaryPp ==
    /\ pc = "dash_summary_pp"
    /\ \E e \in ChatEnvs(scope) :
          Become(SummaryPpStep(Cur, e.provider, e.has_key, e.reply))

CompareResearch ==
    /\ pc = "dash_research"
    /\ \E e \in ResearchEnvs(scope) :
          Become(ResearchStep([Cur EXCEPT !.response = e.resp], e.has_key, e.resp))

Flatten ==
    /\ pc = "idle"
    /\ \E tree \in Trees(scope), prefix \in Prefixes(scope) :
          Become(FlattenCall(Cur, tree, prefix))

SummarizeCompany ==
    /\ IF pc = "idle" THEN TRUE
       ELSE op = "summarize_company" /\ Len(requests) < MaxCalls
    /\ \E data \in Payloads(scope), e \in ChatEnvs(scope) :
          Become(SummarizeCall(Cur, data, e.provider, e.has_key, e.reply))

Next ==
    \/ GetCompanyBySiren
    \/ GetEntrepriseBySiren
    \/ SearchAllDocuments
    \/ SearchPage
    \/ GetBundleForSiren
    \/ BundleCount
    \/ BundlePdf
    \/ CompareClicked
    \/ ComparePappers
    \/ CompareSummaryLm
    \/ CompareSummaryPp
    \/ CompareResearch
    \/ Flatten
    \/ SummarizeCompany

Spec == Init /\ [][Next]_vars
SpecValidate == InitValidate /\ [][Next]_vars
SpecSearch == InitSearch /\ [][Next]_vars
SpecQuery == InitQuery /\ [][Next]_vars
SpecDocs == InitDocs /\ [][Next]_vars
SpecFlat == InitFlat /\ [][Next]_vars
SpecDash == InitDash /\ [][Next]_vars
SpecHttp == InitHttp /\ [][Next]_vars

(***************************************************************************)
(* Properties of search_all_documents, read off the request log.           *)
(***************************************************************************)
\* the page requests issued, in order
SearchLog == SelectSeq(requests, IsSearch)

\* the number of results the answer to a page request carried
PageCount(e) ==
    LET pr == PageResults(e.answer)
    IN  IF IsRaise(pr) THEN 0
        ELSE IF pr.k \in {"list", "str"} THEN Len(pr.v)
        ELSE 0

PageCounts == [i \in 1..Len(SearchLog) |-> PageCount(SearchLog[i])]
PageOffsets == [i \in 1..Len(SearchLog) |-> SearchLog[i].params.sk]

\* the results list of a returned aggregate
ReturnedResults == result.v["legalmap"].v["search_results"].v

\* C1: a page with fewer than page_size results (or none) is the last page
\* requested: no page request follows it.  Against pages of 100, 100 and 37
\* results with page_size 100 the requests are exactly those at offsets 0,
\* 100 and 200, and the 237 results are returned.
C1_StopsAtUnderFullPage ==
    /\ \A i \in 1..Len(SearchLog) :
          (PageCounts[i] = 0 \/ PageCounts[i] < SearchLog[i].params.lm)
             => (i = Len(SearchLog) /\ pc # "search_loop")
    /\ (/\ op = "search_all_documents" /\ page_size = 100
        /\ Len(SearchLog) >= 3
        /\ SubSeq(PageCounts, 1, 3) = <<100, 100, 37>>)
       => /\ PageOffsets = <<0, 100, 200>>
          /\ pc = "returned"
          /\ Len(ReturnedResults) = 237

C1_Witness ==
    /\ op = "search_all_documents" /\ pc = "returned" /\ page_size = 100
    /\ PageCounts = <<100, 100, 37>>
    /\ Len(ReturnedResults) = 237

\* C2: the results accumulated by search_all_documents, and the list it
\* returns, never hold more than max_results items.
C2_NeverExceedsMaxResults ==
    op = "search_all_documents" =>
        /\ Len(all_results) <= max_results
        /\ pc = "returned" => Len(ReturnedResults) <= max_results

\* C3: the k-th page request carries offset (k-1)*page_size and limit
\* page_size, and no request carries an offset >= max_results; with
\* page_size 100 and max_results 250 at most 3 page requests are issued.
C3_OffsetsAndLimits ==
    /\ \A k \in 1..Len(SearchLog) :
          /\ SearchLog[k].params.sk = (k - 1) * page_size
          /\ SearchLog[k].params.lm = page_size
          /\ SearchLog[k].params.sk < max_results
    /\ (page_size = 100 /\ max_results = 250) => Len(SearchLog) <= 3

C3_Witness ==
    /\ op = "search_all_documents" /\ pc = "returned"
    /\ page_size = 100 /\ max_results = 250
    /\ PageCounts = <<100, 100, 100>>
    /\ PageOffsets = <<0, 100, 200>>

\* the result items a page contributes
ItemsOf(page) ==
    LET pr == PageResults(page)
    IN  IF IsRaise(pr) THEN <<>>
        ELSE IF pr.k = "list" THEN pr.v
        ELSE IF pr.k = "str" THEN [i \in 1..Len(pr.v) |-> Str(<<pr.v[i]>>)]
        ELSE <<>>

RECURSIVE ConcatFrom(_, _)
ConcatFrom(log, i) ==
    IF i > Len(log) THEN <<>> ELSE ItemsOf(log[i].answer) \o ConcatFrom(log, i + 1)

\* C4: the value returned is the first fetched page with
\* legalmap.search_results replaced by the concatenation of the results of
\* all fetched pages, in arrival order; every other field, at the top level
\* and inside legalmap, is the first page's.
C4_FirstEnvelopeAndConcatenation ==
    (op = "search_all_documents" /\ pc = "returned" /\ Len(SearchLog) >= 1) =>
        LET first == SearchLog[1].answer
            lm == result.v["legalmap"]
        IN  /\ IsDict(first) /\ IsDict(result) /\ IsDict(lm)
            /\ DOMAIN result.v = DOMAIN first.v \cup {"legalmap"}
            /\ \A key \in DOMAIN first.v \ {"legalmap"} : result.v[key] = first.v[key]
            /\ lm.v["search_results"] = List(ConcatFrom(SearchLog, 1))
            /\ IF Has(first, "legalmap")
               THEN /\ IsDict(first.v["legalmap"])
                    /\ DOMAIN lm.v = DOMAIN first.v["legalmap"].v \cup {"search_results"}
                    /\ \A key \in DOMAIN lm.v \ {"search_results"} :
                          lm.v[key] = first.v["legalmap"].v[key]
               ELSE DOMAIN lm.v = {"search_results"}

C4_Witness ==
    /\ op = "search_all_documents" /\ pc = "returned"
    /\ Len(SearchLog) = 3
    /\ PageCounts = <<2, 2, 1>>
    /\ result.v["meta"] = Num(1)
    /\ ReturnedResults = Items(1, 2) \o Items(2, 2) \o Items(3, 1)

(***************************************************************************)
(* Properties of identifier validation.                                    *)
(***************************************************************************)
\* exactly SirenLen ASCII digits
NineAsciiDigits(text) == Len(text) = SirenLen /\ \A i \in 1..Len(text) : text[i] \in AsciiDigits

\* C5: validation fails for every text that (trimmed of surrounding
\* whitespace) has a length other than 9 or holds a character that is no
\* digit 0-9, and for 9 digits it succeeds and hands on the trimmed digits
\* unchanged.  Seen on get_company_by_siren and get_entreprise_by_siren: a
\* failed validation is the ValueError with nothing sent, a passed one puts
\* the returned text into the request.
C5_ValidationByShape ==
    (op \in {"get_company_by_siren", "get_entreprise_by_siren"} /\ pc # "idle") =>
        IF NineAsciiDigits(Strip(siren_input))
        THEN Len(requests) = 1 /\ requests[1].params.siren = Strip(siren_input)
        ELSE requests = <<>> /\ result = Raise("ValueError")

\* C6: an identifier that fails validation never reaches the network:
\* get_company_by_siren, get_bundle_for_siren and get_entreprise_by_siren
\* raise with no request issued, and the dashboard calls no client when
\* is_valid_siren is false.
C6_NoRequestForMalformed ==
    /\ (/\ op \in {"get_company_by_siren", "get_bundle_for_siren", "get_entreprise_by_siren"}
        /\ IsRaise(ValidateSiren(siren_input)))
       => (requests = <<>> /\ pc = "raised" /\ result = Raise("ValueError"))
    /\ (op = "compare" /\ ~is_valid_siren(RemoveSpaces(Strip(siren_input))))
       => (requests = <<>> /\ pc = "dash_rejected"
           /\ legalmap_data = Undef /\ pappers_data = Undef)

C6_Witness ==
    /\ op = "get_bundle_for_siren" /\ pc = "raised"
    /\ Len(siren_input) = SirenLen /\ ~IsDigit(siren_input)
    /\ requests = <<>>

(***************************************************************************)
(* Properties of get_bundle_for_siren.                                     *)
(***************************************************************************)
InBundle == op \in {"get_bundle_for_siren", "compare"}

\* the dashboard's positions once the LegalMap payload is settled
DashAfterBundle ==
    {"dash_pappers", "dash_fetched", "dash_summary_pp", "dash_research", "dash_done"}

\* the bundle handed back: returned to the caller, or kept by the dashboard
BundleDone ==
    \/ op = "get_bundle_for_siren" /\ pc = "returned"
    \/ op = "compare" /\ pc \in DashAfterBundle /\ Has(legalmap_data, "rne")
TheBundle == IF op = "compare" THEN legalmap_data.v ELSE result.v

\* the owning identifier of a result, zero-padded, equals the queried one
MatchesQuery(res) ==
    LET owner == OwnerOf(res) IN IF IsRaise(owner) THEN FALSE ELSE owner.v = s

\* C7: search_company_results is exactly the aggregated results whose
\* owning identifier (as text, zero-padded to 9) equals the queried
\* identifier, in their order, whatever the other entries look like.
C7_FilterKeepsAllMatching ==
    BundleDone =>
        TheBundle["search_company_results"] =
            List(SelectSeq(TheBundle["_search_raw"].v["legalmap"].v["search_results"].v,
                           MatchesQuery))

NamePath == <<"formality", "content", "personneMorale", "identite", "entreprise", "denomination">>

\* the value at a path of keys through nested dicts, Undef when the path
\* leaves the dicts
RECURSIVE AtPath(_, _, _)
AtPath(x, path, i) ==
    IF i > Len(path) THEN x
    ELSE IF IsDict(x) /\ path[i] \in DOMAIN x.v THEN AtPath(x.v[path[i]], path, i + 1)
    ELSE Undef

Blank(text) == \A i \in 1..Len(text) : text[i] \in Whitespace

\* the registry record has been fetched and the query derived
Derived == InBundle /\ rne # Undef

\* every search, count and detail request carries the query expression
QeUsedThroughout ==
    \A i \in 1..Len(requests) :
        /\ requests[i].route \in {"search", "search/count_results"}
              => requests[i].params.qe = qe
        /\ requests[i].route = "pdfs" => requests[i].params.highlight = qe

\* the derivation itself never ends the bundle: after it the search starts,
\* unless the date window could not be computed (29 February)
DerivationNotFatal == (Derived /\ Len(requests) = 1) => (pc = "search_loop" \/ today = LeapDay)

\* C8 as stated: a non-blank string name gives that name in double quotes,
\* everything else gives the identifier.
C8_QueryIsQuotedName ==
    Derived =>
        LET name == AtPath(rne, NamePath, 1)
        IN  /\ qe = IF name.k = "str" /\ ~Blank(name.v)
                    THEN <<Quote>> \o name.v \o <<Quote>>
                    ELSE s
            /\ QeUsedThroughout
            /\ DerivationNotFatal

\* C8 amended: a non-blank string name gives the name, trimmed of
\* surrounding whitespace, in double quotes; everything else (path missing
\* or cut, name not a string, blank name) gives the validated identifier.
\* The expression is the one used for search, count and highlight, and the
\* derivation never ends the bundle.
C8_QueryIsQuotedTrimmedName ==
    Derived =>
        LET name == AtPath(rne, NamePath, 1)
        IN  /\ qe = IF name.k = "str" /\ ~Blank(name.v)
                    THEN <<Quote>> \o Strip(name.v) \o <<Quote>>
                    ELSE s
            /\ QeUsedThroughout
            /\ DerivationNotFatal

C8_Witness ==
    /\ op = "get_bundle_for_siren" /\ pc = "returned"
    /\ AtPath(rne, NamePath, 1) = Str(<<" ", "E", "X", " ">>)
    /\ qe = <<Quote, "E", "X", Quote>>
    /\ \E i \in 1..Len(requests) : requests[i].route = "pdfs" /\ requests[i].params.highlight = qe

\* the requests of the bundle build (all but the dashboard's second source)
IsLegalMap(e) == e.route \in {"rne", "search", "search/count_results", "pdfs"}
BundleLog == SelectSeq(requests, IsLegalMap)

\* C9: the registry fetch is the first request of a bundle build, and when
\* it raises the exception reaches the caller, no bundle is returned and no
\* search, count or detail request follows.
C9_RegistryFailureAborts ==
    (InBundle /\ BundleLog # <<>>) =>
        /\ BundleLog[1].route = "rne"
        /\ Failed(BundleLog[1]) =>
              /\ Len(BundleLog) = 1
              /\ ~BundleDone
              /\ op = "get_bundle_for_siren" => (pc = "raised" /\ result = BundleLog[1].answer)
              /\ op = "compare" => legalmap_data = ErrorMarker(BundleLog[1].answer)

C9_Witness ==
    /\ op = "get_bundle_for_siren" /\ pc = "raised"
    /\ Len(requests) = 1 /\ requests[1].route = "rne"
    /\ result = HTTPError(500, ErrBody)

\* the answers of the detail requests that did not raise, in order
RECURSIVE GoodDetails(_, _)
GoodDetails(log, i) ==
    IF i > Len(log) THEN <<>>
    ELSE IF log[i].route = "pdfs" /\ ~Failed(log[i])
    THEN <<log[i].answer>> \o GoodDetails(log, i + 1)
    ELSE GoodDetails(log, i + 1)

CountRaised ==
    \E i \in 1..Len(requests) : requests[i].route = "search/count_results" /\ Failed(requests[i])

\* the four parts of the bundle besides _count_results are what the
\* registry, search and detail answers make them, whatever the count call did
OtherPartsFromAnswers ==
    /\ TheBundle["rne"] = BundleLog[1].answer
    /\ TheBundle["_search_raw"] = search
    /\ TheBundle["_search_raw"].v["legalmap"].v["search_results"] = List(ConcatFrom(SearchLog, 1))
    /\ TheBundle["search_company_results"] = List(CompanyResults(search, s))
    /\ TheBundle["_pdf_details_top"] = List(GoodDetails(requests, 1))

\* C10: when count_results raises the bundle is still built and returned,
\* _count_results is {"error": "count_results failed"}, and the other four
\* parts do not depend on the count call.
C10_CountFailureTolerated ==
    /\ (InBundle /\ CountRaised) =>
          /\ count = CountFailed
          /\ pc \in {"bundle_pdf", "returned"} \cup DashAfterBundle
          /\ pc # "bundle_pdf" => (BundleDone /\ TheBundle["_count_results"] = CountFailed)
    /\ BundleDone => OtherPartsFromAnswers

C10_Witness ==
    /\ op = "get_bundle_for_siren" /\ pc = "returned" /\ CountRaised
    /\ Len(company_results) >= 2 /\ Len(pdf_details) >= 1
    /\ result.v["_count_results"] = CountFailed

(***************************************************************************)
(* Properties of the enrichment stage of get_bundle_for_siren.             *)
(***************************************************************************)
IsPdf(e) == e.route = "pdfs"
\* the detail requests issued, in order
PdfLog == SelectSeq(requests, IsPdf)

\* doc holds an id under key: the field is there and not empty
HoldsId(doc, key) == Has(doc, key) /\ Truthy(doc.v[key])
CarriesId(doc) == HoldsId(doc, "acte_id") \/ HoldsId(doc, "inpi_id")
IdOf(doc) == IF HoldsId(doc, "acte_id") THEN doc.v["acte_id"] ELSE doc.v["inpi_id"]

\* the first n entries of list (none when n is not positive)
FirstN(list, n) == SubSeq(list, 1, Min(Max(n, 0), Len(list)))

\* the ids of the first top filtered results that carry one, in order
IdsToFetch ==
    LET docs == SelectSeq(FirstN(company_results, top), CarriesId)
    IN  [i \in 1..Len(docs) |-> IdOf(docs[i])]

\* C11: detail requests go only to the first enrichTopN filtered results, in
\* order, keyed by acte_id or else inpi_id; results without id are passed
\* over, a raising detail fetch is skipped and the rest still attempted, so
\* the returned bundle's _pdf_details_top is the in-order list of the
\* successful detail answers and the bundle is always returned.
C11_EnrichmentFirstTopN ==
    /\ InBundle =>
          /\ Len(PdfLog) <= Len(IdsToFetch)
          /\ \A i \in 1..Len(PdfLog) : PdfLog[i].params.id = IdsToFetch[i]
          /\ PdfLog # <<>> => pc \in {"bundle_pdf", "returned"} \cup DashAfterBundle
    /\ BundleDone =>
          /\ Len(PdfLog) = Len(IdsToFetch)
          /\ TheBundle["_pdf_details_top"] = List(GoodDetails(requests, 1))

(***************************************************************************)
(* Properties of flatten.                                                  *)
(***************************************************************************)
FlattenDone == op = "flatten" /\ pc = "returned"

\* the path of a child: "."+key under a prefix, the key alone under the
\* empty prefix, "["+index+"]" for a list member
ChildPath(path, key) == IF path = <<>> THEN KeyText(key) ELSE path \o <<".">> \o KeyText(key)
MemberPath(path, index) == path \o <<"[">> \o IntText(index) \o <<"]">>

\* the scalar leaves of a value with their paths, in the order the value is
\* written
RECURSIVE Leaves(_, _), LeavesFrom(_, _, _)
LeavesFrom(value, path, i) ==
    IF value.k = "dict"
    THEN LET keys == KeyOrder(value.v)
         IN  IF i > Len(keys) THEN <<>>
             ELSE Leaves(value.v[keys[i]], ChildPath(path, keys[i]))
                  \o LeavesFrom(value, path, i + 1)
    ELSE IF i > Len(value.v) THEN <<>>
         ELSE Leaves(value.v[i], MemberPath(path, i - 1)) \o LeavesFrom(value, path, i + 1)

Leaves(value, path) ==
    IF value.k \in {"dict", "list"} THEN LeavesFrom(value, path, 1)
    ELSE <<[path |-> path, leaf |-> value]>>

PathsOf(leaves) == {leaves[i].path : i \in 1..Len(leaves)}

NestedExample == Dict([a |-> Dict([b |-> Num(1)]), c |-> List(<<Num(1), Num(2)>>)])
NestedExampleFlat ==
    (<<"a", ".", "b">> :> Num(1)) @@ (<<"c", "[", "0", "]">> :> Num(1))
    @@ (<<"c", "[", "1", "]">> :> Num(2))

\* the two worked examples
FlattenExamples ==
    /\ (obj = NestedExample /\ parent_key = <<>>) => result.v = NestedExampleFlat
    /\ (obj = Dict([a |-> Num(1)]) /\ parent_key = <<>>) => result.v = (<<"a">> :> Num(1))
    /\ obj.k \notin {"dict", "list"} => result.v = (parent_key :> obj)

\* C12 as stated: flatten(value, prefix) holds, for each scalar leaf, the
\* entry path -> leaf, the path built with "."+key (the key alone under the
\* empty prefix) and "["+index+"]", a top-level scalar sitting at the prefix;
\* the two worked examples come out as written.
C12_EntryPerLeaf ==
    FlattenDone =>
        LET leaves == Leaves(obj, parent_key)
        IN  /\ DOMAIN result.v = PathsOf(leaves)
            /\ \A i \in 1..Len(leaves) : result.v[leaves[i].path] = leaves[i].leaf
            /\ FlattenExamples

\* C12 amended: the keys of flatten(value, prefix) are the paths of the
\* scalar leaves, and each key holds the leaf written last at that path (so a
\* leaf whose path no later leaf shares has its entry path -> leaf); the two
\* worked examples come out as written.
C12_EntryPerLeafLastWins ==
    FlattenDone =>
        LET leaves == Leaves(obj, parent_key)
        IN  /\ DOMAIN result.v = PathsOf(leaves)
            /\ \A i \in 1..Len(leaves) :
                  (\A j \in (i + 1)..Len(leaves) : leaves[j].path # leaves[i].path)
                      => result.v[leaves[i].path] = leaves[i].leaf
            /\ FlattenExamples

C12_Witness ==
    /\ FlattenDone /\ obj = NestedExample /\ parent_key = <<>>
    /\ result.v = NestedExampleFlat

\* the leaves sit at pairwise distinct paths
DistinctPaths(leaves) ==
    \A i, j \in 1..Len(leaves) : i # j => leaves[i].path # leaves[j].path

\* every leaf's value is the value stored at its key
EveryLeafStored(flat, leaves) ==
    \A i \in 1..Len(leaves) :
        leaves[i].path \in DOMAIN flat /\ flat[leaves[i].path] = leaves[i].leaf

\* C18 as stated: flatten loses no leaf.  For every tree of dicts, lists and
\* scalars flatten(value) has as many entries as the value has scalar
\* leaves, leaves at distinct positions get distinct keys, and every leaf's
\* value is the value stored at its key.
C18_NoLeafLost ==
    FlattenDone =>
        LET leaves == Leaves(obj, parent_key)
        IN  /\ Cardinality(DOMAIN result.v) = Len(leaves)
            /\ DistinctPaths(leaves)
            /\ EveryLeafStored(result.v, leaves)

\* C18 amended: flatten loses no leaf of a tree whose leaf paths spell
\* pairwise distinct keys, and invents none for any tree.  flatten(value)
\* has as many entries as the leaves have distinct paths, which is at most
\* the number of leaves; every entry is the value of a leaf at that path;
\* and when no two leaves share a path there are as many entries as leaves
\* and every leaf's value is the value stored at its key.
C18_NoLeafLostUnlessPathsMeet ==
    FlattenDone =>
        LET leaves == Leaves(obj, parent_key)
            flat == result.v
        IN  /\ Cardinality(DOMAIN flat) = Cardinality(PathsOf(leaves))
            /\ Cardinality(DOMAIN flat) <= Len(leaves)
            /\ \A key \in DOMAIN flat :
                  \E i \in 1..Len(leaves) :
                      leaves[i].path = key /\ leaves[i].leaf = flat[key]
            /\ DistinctPaths(leaves) =>
                  (Cardinality(DOMAIN flat) = Len(leaves) /\ EveryLeafStored(flat, leaves))

C18_Witness ==
    /\ FlattenDone /\ parent_key # <<>> /\ obj.k = "dict"
    /\ Len(Leaves(obj, parent_key)) >= 3
    /\ DistinctPaths(Leaves(obj, parent_key))
    /\ Cardinality(DOMAIN result.v) = Len(Leaves(obj, parent_key))

(***************************************************************************)
(* Properties of the comparison table.                                     *)
(***************************************************************************)
\* the dashboard has built its table
TableBuilt == op = "compare" /\ pc \in DashAfterBundle \ {"dash_pappers"}

\* the display value of the empty cell
EmptyDisplay == <<>>

\* C13: the table over the flat mappings A and B has exactly |A u B| rows,
\* one per key of the union and none twice, in ascending key order; a key
\* of one mapping only has the empty display value in the other's column,
\* and a key of a mapping shows that mapping's value.
C13_OneRowPerUnionKey ==
    TableBuilt =>
        LET A == flat_lm
            B == flat_pp
        IN  /\ Len(rows) = Cardinality(DOMAIN A \cup DOMAIN B)
            /\ {rows[i].champ : i \in 1..Len(rows)} = DOMAIN A \cup DOMAIN B
            /\ \A i, j \in 1..Len(rows) : i < j => TextLess(rows[i].champ, rows[j].champ)
            /\ \A i \in 1..Len(rows) :
                  /\ rows[i].champ \notin DOMAIN A => rows[i].legalmap = EmptyDisplay
                  /\ rows[i].champ \notin DOMAIN B => rows[i].pappers = EmptyDisplay
                  /\ rows[i].champ \in DOMAIN A =>
                        rows[i].legalmap = to_display_value(A[rows[i].champ])
                  /\ rows[i].champ \in DOMAIN B =>
                        rows[i].pappers = to_display_value(B[rows[i].champ])

C13_Witness ==
    /\ TableBuilt
    /\ \E i, j, n \in 1..Len(rows) :
          /\ rows[i].champ \in DOMAIN flat_lm \ DOMAIN flat_pp
          /\ rows[j].champ \in DOMAIN flat_pp \ DOMAIN flat_lm
          /\ rows[n].champ \in DOMAIN flat_lm \cap DOMAIN flat_pp
          /\ rows[n].legalmap # rows[n].pappers

(***************************************************************************)
(* Properties of the summarization calls.                                  *)
(***************************************************************************)
IsChat(e) == e.route = "chat"
\* the summarization requests sent, in order
ChatLog == SelectSeq(requests, IsChat)

\* the part of a summarization request that is content (the rest names the
\* configured provider)
BodyOf(e) == [system |-> e.params.system, user |-> e.params.user]

\* the request body that the payload's compact text alone determines
BodyFor(text) == [system |-> SystemMsg, user |-> UserIntro \o text]

\* sub occurs in text
Contains(text, sub) ==
    \E i \in 1..(Len(text) - Len(sub) + 1) : SubSeq(text, i, i + Len(sub) - 1) = sub

\* a summary call of the dashboard got as far as sending its request
Sent(summary) == summary # ErrorText("Erreur de synthese: ", Raise("RuntimeError"))

\* text of the other payload is in a request only where the summarized
\* payload itself holds it
NoForeignContent(e, own, other) == Contains(e.params.user, other) => Contains(own, other)

\* C14: the request summarize_company(A) sends is determined by A alone:
\* the dashboard's two calls send the body of their own payload whatever the
\* other payload is, direct calls in any order send the body of the payload
\* of the call, and no text of the other payload gets into a request.
C14_SummaryOfOwnPayloadOnly ==
    /\ (op = "compare" /\ pc \in {"dash_summary_pp", "dash_research", "dash_done"}) =>
          LET lm == CompactJson(legalmap_data)
              pp == CompactJson(pappers_data)
              log == ChatLog
              due == (IF Sent(summary_lm) THEN <<BodyFor(lm)>> ELSE <<>>)
                     \o (IF pc # "dash_summary_pp" /\ Sent(summary_pp)
                         THEN <<BodyFor(pp)>> ELSE <<>>)
          IN  /\ [i \in 1..Len(log) |-> BodyOf(log[i])] = due
              /\ \A i \in 1..Len(log) :
                    \/ BodyOf(log[i]) = BodyFor(lm) /\ NoForeignContent(log[i], lm, pp)
                    \/ BodyOf(log[i]) = BodyFor(pp) /\ NoForeignContent(log[i], pp, lm)
    /\ op = "summarize_company" =>
          LET log == ChatLog
          IN  /\ \A i \in 1..Len(log) :
                    \E payload \in Payloads(scope) :
                        BodyOf(log[i]) = BodyFor(CompactJson(payload))
              /\ result # Raise("RuntimeError") =>
                    (log # <<>> /\ BodyOf(log[Len(log)]) = BodyFor(CompactJson(obj)))

C14_Witness ==
    /\ op = "compare" /\ pc = "dash_done" /\ Len(ChatLog) = 2
    /\ Has(legalmap_data, "rne") /\ Has(pappers_data, "nom_entreprise")
    /\ BodyOf(ChatLog[1]) # BodyOf(ChatLog[2])
    /\ ~Contains(ChatLog[1].params.user, CompactJson(pappers_data))
    /\ ~Contains(ChatLog[2].params.user, CompactJson(legalmap_data))

(***************************************************************************)
(* Properties of the dashboard's failure handling.                         *)
(***************************************************************************)
IsPappers(e) == e.route = "entreprise"
PappersLog == SelectSeq(requests, IsPappers)
IsResearch(e) == e.route = "perplexity"
ResearchLog == SelectSeq(requests, IsResearch)

\* a client or collaborator that could not be set up (no credential, no
\* package) raises this before any request
NotConfigured == Raise("RuntimeError")

\* what the dashboard keeps of one source: the marker of the exception that
\* ended the fetch, else the payload
KeptOf(log, payload) ==
    IF log = <<>> THEN ErrorMarker(NotConfigured)
    ELSE IF \E i \in 1..Len(log) : Failed(log[i])
    THEN ErrorMarker(log[CHOOSE i \in 1..Len(log) : Failed(log[i])].answer)
    ELSE payload

\* the requests of the bundle build on which the build depends
IsFatalPart(e) == e.route \in {"rne", "search"}

\* what the dashboard shows of a summary or research call: the text of the
\* exception under its label, else something that is not an exception
ShownOf(shown, label, attempts) ==
    /\ shown # Undef /\ ~IsRaise(shown)
    /\ attempts = <<>> => shown = ErrorText(label, NotConfigured)
    /\ (attempts # <<>> /\ Failed(attempts[Len(attempts)])) =>
          shown = ErrorText(label, attempts[Len(attempts)].answer)

\* the handler is at work on a valid identifier
DashRunning == op = "compare" /\ pc # "dash_rejected"

\* C15: for a valid identifier the handler never ends in an exception: a
\* failing source (client set-up or fetch) leaves its {"error": ...} marker
\* for that source only, the other source's payload is what that source
\* answered, the table is built over both payloads, and both summaries and
\* the research have been attempted when the handler is through, a failure
\* of each showing as its error text, whichever collaborators fail.
C15_FailuresStayInline ==
    DashRunning =>
        /\ pc \in DashAfterBundle \cup {"search_loop", "bundle_count", "bundle_pdf"}
        /\ result = Undef
        /\ pc \in DashAfterBundle =>
              legalmap_data = KeptOf(SelectSeq(BundleLog, IsFatalPart), BundleValue(Cur))
        /\ pc \in DashAfterBundle \ {"dash_pappers"} =>
              /\ pappers_data = KeptOf(PappersLog, PappersLog[Len(PappersLog)].answer)
              /\ flat_lm = FlatOf(legalmap_data) /\ flat_pp = FlatOf(pappers_data)
              /\ Len(rows) = Cardinality(DOMAIN flat_lm \cup DOMAIN flat_pp)
              /\ Len(rows) > 0
        /\ pc \in {"dash_summary_pp", "dash_research", "dash_done"} =>
              \E n \in 0..Len(ChatLog) :
                  /\ ShownOf(summary_lm, "Erreur de synthese: ", SubSeq(ChatLog, 1, Min(n, 1)))
                  /\ pc # "dash_summary_pp" =>
                        ShownOf(summary_pp, "Erreur de synthese: ",
                                SubSeq(ChatLog, Min(n, 1) + 1, Len(ChatLog)))
        /\ pc = "dash_done" =>
              ShownOf(px_research, "Erreur Perplexity (recherche): ", ResearchLog)

C15_Witness ==
    /\ op = "compare" /\ pc = "dash_done"
    /\ legalmap_data = ErrorMarker(HTTPError(500, ErrBody))
    /\ Has(pappers_data, "nom_entreprise")
    /\ Len(rows) = 3
    /\ summary_lm = ErrorText("Erreur de synthese: ", Raise("APIError"))
    /\ summary_pp = Str(<<"r", "e", "p">>)
    /\ px_research = ErrorText("Erreur Perplexity (recherche): ", Raise("JSONDecodeError"))

(***************************************************************************)
(* Properties of LegalMapClient._request.                                  *)
(***************************************************************************)
\* get_company_by_siren has sent its request and got an HTTP response;
\* what _request made of it is the call's outcome
Answered ==
    /\ op = "get_company_by_siren" /\ pc \in {"returned", "raised"}
    /\ requests # <<>> /\ response.kind = "http"

Success(status) == status >= 200 /\ status < 300

\* the diagnostic record of a response that does not decode as JSON
IsDiagnostic(out, resp) ==
    /\ IsDict(out)
    /\ Has(out, "_status_code") /\ out.v["_status_code"] = Num(resp.status)
    /\ Has(out, "_content_type") /\ out.v["_content_type"] = Str(resp.ctype)
    /\ IF InType("pdf", resp.ctype) \/ InType("octet-stream", resp.ctype)
       THEN Has(out, "_bytes_length") /\ out.v["_bytes_length"] = Num(resp.nbytes)
       ELSE /\ Has(out, "_text_preview")
            /\ Len(out.v["_text_preview"].v) <= PreviewLen
            /\ out.v["_text_preview"].v =
                   SubSeq(resp.text, 1, Len(out.v["_text_preview"].v))
            /\ Len(resp.text) <= PreviewLen => out.v["_text_preview"].v = resp.text
            /\ Len(resp.text) > PreviewLen => Len(out.v["_text_preview"].v) = PreviewLen

\* the outcomes of the responses that are no failure
SuccessOutcomes ==
    /\ (Success(response.status) /\ ~response.isjson) => IsDiagnostic(result, response)
    /\ (Success(response.status) /\ response.isjson) => result = response.data

\* the error raised for a failure whose body decodes
CarriesStatusAndBody ==
    (response.status >= 400 /\ response.isjson) =>
        (IsRaise(result) /\ result.status = response.status /\ result.body = response.data)

\* C16 as stated: a 2xx response that is not JSON comes back as a
\* diagnostic record (status code, content type, and byte length or text
\* preview of at most 2000 characters); every response of status >= 400
\* raises, JSON or not, the error of a JSON body carrying status code and
\* body; a 2xx JSON response comes back as its decoded body.
C16_OutcomeByResponseShape ==
    Answered =>
        /\ SuccessOutcomes
        /\ response.status >= 400 => IsRaise(result)
        /\ CarriesStatusAndBody

\* C16 amended: as stated, but of the responses that do not decode as JSON
\* those of status 400 to 599 raise; a response of a status beyond 599 that
\* does not decode comes back as a diagnostic record.
C16_OutcomeByResponseShapeAndClass ==
    Answered =>
        /\ SuccessOutcomes
        /\ (response.status >= 400 /\ (response.isjson \/ response.status < 600)) =>
              IsRaise(result)
        /\ (response.status >= 600 /\ ~response.isjson) => IsDiagnostic(result, response)
        /\ CarriesStatusAndBody

C16_Witness ==
    /\ Answered /\ response.status = 200 /\ ~response.isjson
    /\ Len(response.text) = PreviewLen + 1
    /\ pc = "returned" /\ Len(result.v["_text_preview"].v) = PreviewLen


(***************************************************************************)
(* Termination of search_all_documents.                                    *)
(***************************************************************************)
\* a page request of search_all_documents after which the loop goes on to
\* another request
LoopGoesOn ==
    /\ op = "search_all_documents" /\ pc = "search_loop"
    /\ op' = "search_all_documents" /\ pc' = "search_loop"
    /\ PagesIssued(requests') = PagesIssued(requests) + 1

\* C17: search_all_documents always terminates, for every integer page_size
\* and max_results and every page source whose fetches return.  The loop
\* runs while sk < max_results, so it ends after finitely many page
\* requests exactly when every request that leaves the loop running has
\* moved sk strictly closer to max_results; a request that leaves sk where
\* it was, or moves it back, can be repeated by the page source for ever.
C17_EveryPageAdvancesOffset ==
    [][LoopGoesOn => (sk < sk' /\ sk' < max_results)]_vars

====
